---- MODULE Spec2Model ----
(***************************************************************************)
(* pixfont: the glyph packer of cmd/fontgen (packFont) and the renderer of *)
(* package pixfont (PixFont, DrawRune, DrawString, MeasureRune,            *)
(* MeasureString), modelled as a state machine.                            *)
(*                                                                         *)
(* A uint32 word is the set of its 1-bit positions (a subset of 0..31), so *)
(* that all 32 bits are kept: "|" is union, "&" is intersection, "<< 1"    *)
(* moves every position up by one and drops what leaves bit 31.            *)
(* A Go string is the sequence of its characters; string index x is        *)
(* element x+1.  A Go map is a function on the set of its keys.            *)
(***************************************************************************)
EXTENDS Integers, Sequences, FiniteSets, TLC

(***************************************************************************)
(* Bounds of the model.                                                    *)
(***************************************************************************)
MaxH == 2          \* cell heights 1..MaxH
MaxGlyphs == 5     \* glyph sets of 0..MaxGlyphs glyphs
MaxText == 2       \* texts of 0..MaxText runes
MaxSpacing == 2    \* Spacing is set to 0..MaxSpacing
MaxX == 2          \* StringDrawable.Set is called with x in 0..MaxX
MaxY == 2          \* StringDrawable.Set is called with y in 0..MaxY
MaxLines == 4      \* BDF inputs of 0..MaxLines lines

(***************************************************************************)
(* Program constants.                                                      *)
(***************************************************************************)
MaxWidth == 32     \* "fonts should be at most 32 pixels wide"
DefaultSpacing == 1
ByteX == 88        \* byte('X')
ByteSpace == 32    \* " "
ByteNewline == 10  \* "\n"
FirstCode == 65    \* 'A', the first letter of the default alphabet
MaxUint8 == 255    \* "height is limited to uint8 255"

VARIABLES
    w,          \* packFont's w: the cell width
    h,          \* packFont's h: the cell height
    d,          \* packFont's d: rune -> (row index -> row string)
    packed,     \* what the last packFont call returned
    font,       \* the PixFont (NoFont before NewPixFont)
    varWidth,   \* the last argument given to SetVariableWidth
    Spacing,    \* the package variable pixfont.Spacing
    surface,    \* the Drawable: the pixels that received Set, with their color
    ret,        \* the last renderer call and what it returned
    running,    \* the renderer calls in progress, one per thread
    sd,         \* StringDrawable.lines: one byte sequence per line
    bdf         \* OpenBDF: the input, the scanner and the parser's locals

vars == <<w, h, d, packed, font, varWidth, Spacing, surface, ret, running, sd, bdf>>

(***************************************************************************)
(* Fixed-width integers.                                                   *)
(***************************************************************************)
ToUint8(v) == v % 256
ToUint16(v) == v % 65536

\* b <<= 1 on a uint32
ShiftLeft1(b) == {i + 1 : i \in {j \in b : j < 31}}

\* uint32(1) << n
OneShl(n) == IF n < 32 THEN {n} ELSE {}

\* TRUE; evaluating it evaluates v, so that a loop's state is computed
\* before the next iteration starts
Evaluated(v) == v = v

(***************************************************************************)
(* sort.IntSlice(chs).Sort(): the keys of a map are distinct, so the       *)
(* sorted slice holds at index i the key that has i smaller keys.          *)
(***************************************************************************)
SortKeys(keys) ==
    [i \in 1..Cardinality(keys) |->
        CHOOSE v \in keys : Cardinality({u \in keys : u < v}) = i - 1]

SortInts(s) == SortKeys({s[i] : i \in 1..Len(s)})

(***************************************************************************)
(* packFont                                                                *)
(***************************************************************************)
u8PerCh(cw) == ((cw - 1) \div 8) + 1        \* ((w - 1) >> 3) + 1
\* a packer that never puts fewer than one glyph in a word
chPerU32AtLeastOne(cw) ==
    IF u8PerCh(cw) = 0 THEN 1
    ELSE IF 4 \div u8PerCh(cw) = 0 THEN 1 ELSE 4 \div u8PerCh(cw)

chPerU32(cw) == 4 \div u8PerCh(cw)
\* a packer that steps by the bytes a glyph takes, not by a divisor of 4
laneSpacingBytes(cw) == ((cw - 1) \div 8) + 1

laneSpacing(cw) == 4 \div chPerU32(cw)        \* the local "spacing"
\* a packer that forgets the "- 1" of the rounding
costPerLineNoMinusOne(cw, n) == (n + (4 \div u8PerCh(cw))) \div (4 \div u8PerCh(cw))

\* a packer that rounds the words per line down
costPerLineFloor(cw, n) == n \div (4 \div u8PerCh(cw))

costPerLine(cw, n) == (n + chPerU32(cw) - 1) \div chPerU32(cw)
costTotal(cw, ch, n) == ch * costPerLine(cw, n)

\* Go panics on an integer division by zero.
DivPanics(cw) == u8PerCh(cw) = 0 \/ chPerU32(cw) = 0

\* a packer whose x loop runs over the whole row string
RECURSIVE packLineWholeRow(_, _, _, _, _)
packLineWholeRow(line, b, ld, x, cw) ==
    IF x >= Len(ld) THEN line
    ELSE packLineWholeRow(IF ld[x + 1] = "X" THEN line \cup b ELSE line,
                          ShiftLeft1(b), ld, x + 1, cw)

\* a packer that takes every marker but the space for ink
RECURSIVE packLineNonSpace(_, _, _, _, _)
packLineNonSpace(line, b, ld, x, cw) ==
    IF x >= cw THEN line
    ELSE packLineNonSpace(IF Len(ld) > x /\ ld[x + 1] # " " THEN line \cup b ELSE line,
                          ShiftLeft1(b), ld, x + 1, cw)

\* the x loop of one row: for x := 0; x < w; x++ { ... b <<= 1 }
RECURSIVE packLine(_, _, _, _, _)
packLine(line, b, ld, x, cw) ==
    IF x >= cw THEN line
    ELSE packLine(IF Len(ld) > x /\ ld[x + 1] = "X" THEN line \cup b ELSE line,
                  ShiftLeft1(b), ld, x + 1, cw)

\* a packer that starts a glyph at bit dist instead of bit 8*dist
packRowBitLane(line, matrix, y, dist, cw) ==
    IF y \in DOMAIN matrix
    THEN packLine(line, OneShl(dist), matrix[y], 0, cw)
    ELSE line

\* the body of the y loop: the new value of encoded[i32+y]
packRow(line, matrix, y, dist, cw) ==
    IF y \in DOMAIN matrix
    THEN packLine(line, OneShl(8 * dist), matrix[y], 0, cw)
    ELSE line

\* the y loop for one glyph: every y rewrites its own word encoded[i32+y],
\* the words before and after the glyph's ch rows stay as they are
packGlyph(encoded, matrix, i32, dist, cw, ch) ==
    SubSeq(encoded, 1, i32)
    \o [y \in 1..ch |-> packRow(encoded[i32 + y], matrix, y - 1, dist, cw)]
    \o SubSeq(encoded, i32 + ch + 1, Len(encoded))

\* one iteration of the loop over chs, for c = chs[k]; st is
\* [status, encoded, cm, i8]
packStep(chs, k, st, cw, ch, dd) ==
    LET c == chs[k]
        i32 == (st.i8 \div 4) * ch
        dist == st.i8 % 4
        cm1 == [r \in DOMAIN st.cm \cup {c} |->
                   IF r = c THEN ToUint16((i32 * 4) + dist) ELSE st.cm[r]]
    IN  IF st.status = "panic" THEN st
        ELSE IF ch > 0 /\ i32 + ch > Len(st.encoded)
        THEN [status |-> "panic", encoded |-> st.encoded, cm |-> cm1, i8 |-> st.i8]
        ELSE [status |-> "ok",
              encoded |-> packGlyph(st.encoded, dd[c], i32, dist, cw, ch),
              cm |-> cm1,
              i8 |-> st.i8 + laneSpacing(cw)]

\* the loop "for _, c := range chs" over chs[lo..hi], in order: the first
\* half, then the second half from the state the first half left
RECURSIVE packLoop(_, _, _, _, _, _, _)
packLoop(chs, lo, hi, st, cw, ch, dd) ==
    IF lo > hi THEN st
    ELSE IF lo = hi THEN packStep(chs, lo, st, cw, ch, dd)
    ELSE LET mid == (lo + hi) \div 2
             half == packLoop(chs, lo, mid, st, cw, ch, dd)
         IN  IF Evaluated(half) THEN packLoop(chs, mid + 1, hi, half, cw, ch, dd)
             ELSE half

EmptyMap == [r \in {} |-> 0]

\* a packer that does not sort
unsortedChs(iter) == iter

\* the order the glyphs are processed in
sortedChs(iter) == SortInts(iter)

\* packFont(w, h, d), with iter the order in which "range d" yields the keys
packFont(cw, ch, dd, iter) ==
    IF DivPanics(cw) \/ costTotal(cw, ch, Len(iter)) < 0
    THEN [status |-> "panic", encoded |-> <<>>, cm |-> EmptyMap]
    ELSE LET chs == sortedChs(iter)
             st == packLoop(chs, 1, Len(chs),
                       [status |-> "ok",
                        encoded |-> [i \in 1..costTotal(cw, ch, Len(iter)) |-> {}],
                        cm |-> EmptyMap,
                        i8 |-> 0],
                       cw, ch, dd)
         IN  [status |-> st.status, encoded |-> st.encoded, cm |-> st.cm]

(***************************************************************************)
(* PixFont                                                                 *)
(***************************************************************************)
NoFont == [charWidth |-> 0, charHeight |-> 0, charmap |-> EmptyMap,
           data |-> <<>>, varCharWidth |-> 0, built |-> FALSE]

\* a NewPixFont that leaves the variable-width basis at its zero value
NewPixFontZeroBasis(w8, h8, cm, dt) ==
    [charWidth |-> w8, charHeight |-> h8, charmap |-> cm,
     data |-> dt, varCharWidth |-> 0, built |-> TRUE]

NewPixFont(w8, h8, cm, dt) ==
    [charWidth |-> w8, charHeight |-> h8, charmap |-> cm,
     data |-> dt, varCharWidth |-> w8, built |-> TRUE]

\* a SetVariableWidth without the floor of 3 pixels
SetVariableWidthNoFloor(p, isVar) ==
    IF ~isVar
    THEN [p EXCEPT !.varCharWidth = p.charWidth]
    ELSE [p EXCEPT !.varCharWidth = p.charWidth \div 3]

\* a SetVariableWidth that stores the new basis in charWidth as well
SetVariableWidthBothFields(p, isVar) ==
    IF ~isVar
    THEN [p EXCEPT !.varCharWidth = p.charWidth]
    ELSE LET v == IF p.charWidth \div 3 < 3 THEN 3 ELSE p.charWidth \div 3
         IN  [p EXCEPT !.varCharWidth = v, !.charWidth = v]

\* a SetVariableWidth that derives the new basis from the current one
SetVariableWidthFromBasis(p, isVar) ==
    IF ~isVar
    THEN [p EXCEPT !.varCharWidth = p.charWidth]
    ELSE [p EXCEPT !.varCharWidth =
             IF p.varCharWidth \div 3 < 3 THEN 3 ELSE p.varCharWidth \div 3]

\* the value SetVariableWidth stores in varCharWidth
SetVariableWidth(p, isVar) ==
    IF ~isVar
    THEN [p EXCEPT !.varCharWidth = p.charWidth]
    ELSE [p EXCEPT !.varCharWidth =
             IF p.charWidth \div 3 < 3 THEN 3 ELSE p.charWidth \div 3]

\* Drawable.Set(x, y, c) on a surface that stores one color per pixel
SetPixel(s, px) == {q \in s : <<q[1], q[2]>> # <<px[1], px[2]>>} \cup {px}

\* a set of Set calls that all carry the same color, applied to a surface
ApplyCalls(s, calls) ==
    {q \in s : \A px \in calls : <<q[1], q[2]>> # <<px[1], px[2]>>} \cup calls

\* d[yy] & bitMask != 0
Masked(line, bitMask) == (line \cap bitMask) # {}

\* a decoder that takes the lane for a bit position
psubOfLane(poff) == poff % 4

\* psub := (poff & 0x03) * 8 ; pindex := int(poff >> 2)
psubOf(poff) == (poff % 4) * 8
pindexOf(poff) == poff \div 4

\* p.data[pindex : pindex+int(p.charHeight)] panics when the slice leaves data
SliceOutOfRange(p, poff) == pindexOf(poff) + p.charHeight > Len(p.data)

\* the xx loop of DrawRune for one row; acc is [w, calls]
RECURSIVE drawCols(_, _, _, _, _, _)
drawCols(line, bitMask, xx, yy, a, acc) ==
    IF xx >= a.cw THEN acc
    ELSE drawCols(line, ShiftLeft1(bitMask), xx + 1, yy, a,
             IF Masked(line, bitMask)
             THEN [w |-> IF xx >= acc.w THEN xx + a.sp ELSE acc.w,
                   calls |-> acc.calls \cup {<<a.x + xx, a.y + yy, a.clr>>}]
             ELSE acc)

\* the yy loop of DrawRune over the rows lo..hi, in order: the first half,
\* then the second half from the state the first half left
RECURSIVE drawRows(_, _, _, _, _, _)
drawRows(rows, psub, lo, hi, a, acc) ==
    IF lo > hi THEN acc
    ELSE IF lo = hi
    THEN drawCols(rows[lo + 1], OneShl(psub), 0, lo, a, acc)
    ELSE LET mid == (lo + hi) \div 2
             half == drawRows(rows, psub, lo, mid, a, acc)
         IN  IF Evaluated(half) THEN drawRows(rows, psub, mid + 1, hi, a, half)
             ELSE half

\* a DrawRune that marks a missing rune with a pixel
missingRuneMarked(p, x, y, clr) ==
    [panic |-> FALSE, found |-> FALSE, n |-> p.varCharWidth,
     calls |-> {<<x, y, clr>>}]

\* DrawRune when the rune is not in the charmap: if !haveChar { return ... }
missingRune(p, x, y, clr) ==
    [panic |-> FALSE, found |-> FALSE, n |-> p.varCharWidth, calls |-> {}]

\* p.DrawRune(dr, x, y, c, clr) with Spacing = sp: what it returns and the
\* Set calls it makes on dr
DrawRune(p, sp, x, y, c, clr) ==
    IF c \notin DOMAIN p.charmap
    THEN missingRune(p, x, y, clr)
    ELSE LET poff == p.charmap[c]
             w0 == IF p.varCharWidth # p.charWidth THEN 0 ELSE p.charWidth
         IN  IF SliceOutOfRange(p, poff)
             THEN [panic |-> TRUE, found |-> FALSE, n |-> 0, calls |-> {}]
             ELSE LET rows == SubSeq(p.data, pindexOf(poff) + 1,
                                     pindexOf(poff) + p.charHeight)
                      a == [cw |-> p.charWidth, ch |-> p.charHeight,
                            x |-> x, y |-> y, clr |-> clr, sp |-> sp]
                      acc == drawRows(rows, psubOf(poff), 0, p.charHeight - 1, a,
                                      [w |-> w0, calls |-> {}])
                  IN  [panic |-> FALSE, found |-> TRUE, n |-> acc.w,
                       calls |-> acc.calls]

\* the xx loop of MeasureRune for one row: xx starts at the w reached so far
RECURSIVE measureCols(_, _, _, _, _, _)
measureCols(line, bitMask, xx, cw, sp, wacc) ==
    IF xx >= cw THEN wacc
    ELSE measureCols(line, ShiftLeft1(bitMask), xx + 1, cw, sp,
             IF Masked(line, bitMask) /\ xx >= wacc THEN xx + sp ELSE wacc)

\* the yy loop of MeasureRune over the rows lo..hi, in order
RECURSIVE measureRows(_, _, _, _, _, _, _)
measureRows(rows, psub, lo, hi, cw, sp, wacc) ==
    IF lo > hi THEN wacc
    ELSE IF lo = hi
    THEN measureCols(rows[lo + 1], OneShl(psub), wacc, cw, sp, wacc)
    ELSE LET mid == (lo + hi) \div 2
             half == measureRows(rows, psub, lo, mid, cw, sp, wacc)
         IN  IF Evaluated(half) THEN measureRows(rows, psub, mid + 1, hi, cw, sp, half)
             ELSE half

\* p.MeasureRune(c) with Spacing = sp
MeasureRune(p, sp, c) ==
    IF p.varCharWidth = p.charWidth
    THEN [panic |-> FALSE, found |-> c \in DOMAIN p.charmap, n |-> p.charWidth,
          calls |-> {}]
    ELSE IF c \notin DOMAIN p.charmap
    THEN [panic |-> FALSE, found |-> FALSE, n |-> p.varCharWidth, calls |-> {}]
    ELSE LET poff == p.charmap[c]
         IN  IF SliceOutOfRange(p, poff)
             THEN [panic |-> TRUE, found |-> FALSE, n |-> 0, calls |-> {}]
             ELSE [panic |-> FALSE, found |-> TRUE,
                   n |-> measureRows(SubSeq(p.data, pindexOf(poff) + 1,
                                            pindexOf(poff) + p.charHeight),
                                     psubOf(poff), 0, p.charHeight - 1,
                                     p.charWidth, sp, 0),
                   calls |-> {}]

\* a DrawString that leaves out the spacing
advanceNoSpacing(x, adv, sp) == x + adv

\* x += w + Spacing
advance(x, adv, sp) == x + adv + sp

\* the loop of DrawString over the runes of s, from rune k on; acc is
\* [panic, n, calls] with n the cursor x
RECURSIVE drawStringLoop(_, _, _, _, _, _, _)
drawStringLoop(p, sp, y, s, clr, k, acc) ==
    IF k > Len(s) \/ acc.panic THEN acc
    ELSE LET r == DrawRune(p, sp, acc.n, y, s[k], clr)
         IN  drawStringLoop(p, sp, y, s, clr, k + 1,
                 [panic |-> r.panic,
                  n |-> advance(acc.n, r.n, sp),
                  calls |-> acc.calls \cup r.calls])

\* p.DrawString(dr, x, y, s, clr) with Spacing = sp
DrawString(p, sp, x, y, s, clr) ==
    LET r == drawStringLoop(p, sp, y, s, clr, 1,
                            [panic |-> FALSE, n |-> x, calls |-> {}])
    IN  [panic |-> r.panic, found |-> FALSE, n |-> r.n, calls |-> r.calls]

\* the loop of MeasureString
RECURSIVE measureStringLoop(_, _, _, _, _)
measureStringLoop(p, sp, s, k, acc) ==
    IF k > Len(s) \/ acc.panic THEN acc
    ELSE LET r == MeasureRune(p, sp, s[k])
         IN  measureStringLoop(p, sp, s, k + 1,
                 [panic |-> r.panic, n |-> advance(acc.n, r.n, sp)])

\* p.MeasureString(s) with Spacing = sp
MeasureString(p, sp, s) ==
    LET r == measureStringLoop(p, sp, s, 1, [panic |-> FALSE, n |-> 0])
    IN  [panic |-> r.panic, found |-> FALSE, n |-> r.n, calls |-> {}]

(***************************************************************************)
(* StringDrawable.  A byte is its value; a line is a sequence of bytes,    *)
(* index x is element x+1.                                                 *)
(***************************************************************************)
\* make([]byte, n)
Zeros(n) == [i \in 1..n |-> 0]

\* a Set that replaces a line it has to lengthen
StringDrawableSetFresh(lines, x, y) ==
    LET l1 == IF Len(lines) <= y
              THEN lines \o [i \in 1..(y + 1 - Len(lines)) |-> Zeros(x)]
              ELSE lines
        l2 == IF Len(l1[y + 1]) <= x
              THEN [l1 EXCEPT ![y + 1] = Zeros(x + 1)]
              ELSE l1
    IN  [l2 EXCEPT ![y + 1][x + 1] = ByteX]

\* func (s *StringDrawable) Set(x, y int, c color.Color): s.lines afterwards
StringDrawableSet(lines, x, y) ==
    LET l1 == IF Len(lines) <= y
              THEN lines \o [i \in 1..(y + 1 - Len(lines)) |-> Zeros(x)]
              ELSE lines
        l2 == IF Len(l1[y + 1]) <= x
              THEN [l1 EXCEPT ![y + 1] = @ \o Zeros(1 + (x - Len(@)))]
              ELSE l1
    IN  [l2 EXCEPT ![y + 1][x + 1] = ByteX]

\* bytes.Replace(line, []byte{0}, []byte(" "), -1)
ReplaceZeros(line) == [i \in 1..Len(line) |-> IF line[i] = 0 THEN ByteSpace ELSE line[i]]

\* func (s *StringDrawable) PrefixString(p string) string
RECURSIVE PrefixString(_, _)
PrefixString(lines, p) ==
    IF lines = <<>> THEN <<>>
    ELSE p \o ReplaceZeros(Head(lines)) \o <<ByteNewline>> \o PrefixString(Tail(lines), p)

\* func (s *StringDrawable) String() string
String(lines) == PrefixString(lines, <<>>)

\* the prefix generatePixFont uses: "// "
CommentPrefix == <<47, 47, ByteSpace>>

NoLines == <<>>

(***************************************************************************)
(* OpenBDF.  The input is a sequence of lines; a line is [key, n]: key is  *)
(* parts[0], the word before the first space, n the number that Sscanf     *)
(* reads from parts[1] (0 when the parser reads none).  The scanner is     *)
(* (input, pos, tok): pos lines consumed, tok what s.Text() returns.       *)
(***************************************************************************)
EmptyLine == [key |-> "", n |-> 0]

BDFLines ==
    {[key |-> "CHARS", n |-> 1], [key |-> "CHARS", n |-> 2],
     [key |-> "STARTPROPERTIES", n |-> 1], [key |-> "STARTCHAR", n |-> 0],
     [key |-> "BBX", n |-> 1], [key |-> "BITMAP", n |-> 0],
     [key |-> "80", n |-> 0]}

BDFInputs == UNION {[1..n -> BDFLines] : n \in 0..MaxLines}

\* the state on entry to OpenBDF(f), f holding the lines of input
OpenBDFEntry(input) ==
    [pc |-> "header", input |-> input, pos |-> 0, tok |-> EmptyLine,
     NumProperties |-> 0, Properties |-> {}, NumGlyphs |-> 0,
     i |-> 0, line |-> EmptyLine, parts |-> EmptyLine, height |-> 0, hh |-> 0]

NotParsing == [OpenBDFEntry(<<>>) EXCEPT !.pc = "none"]

\* s.Scan(): true and the next line while there is one; at the end of the
\* input false, and s.Text() is the empty string from then on
ScanOk(b) == b.pos < Len(b.input)
Scan(b) ==
    IF ScanOk(b)
    THEN [b EXCEPT !.pos = b.pos + 1, !.tok = b.input[b.pos + 1]]
    ELSE [b EXCEPT !.tok = EmptyLine]

\* pfunc(fnt, parts[1]) for the keys of parsers that the loops depend on
applyParser(b, ln) ==
    CASE ln.key = "CHARS" -> [b EXCEPT !.NumGlyphs = ln.n]
      [] ln.key = "STARTPROPERTIES" ->
            [b EXCEPT !.NumProperties = ln.n, !.Properties = {}]
      [] OTHER -> b

\* strings.HasPrefix(line, "STARTCHAR")
HasPrefixStartChar(ln) == ln.key = "STARTCHAR"

(***************************************************************************)
(* The inputs: cell sizes, glyph sets, iteration orders, texts.            *)
(***************************************************************************)
Widths == 0..(MaxWidth + 1)
Heights == 1..MaxH
Codes == FirstCode..(FirstCode + MaxGlyphs - 1)
AbsentCode == FirstCode - 1

PatternSeq == <<"blank", "full", "corners", "stairs">>

\* the glyph shapes: a map from row index to row string
Matrix(pat, cw, ch) ==
    CASE pat = "blank" -> [y \in {} |-> <<>>]
      [] pat = "full" -> [y \in 0..(ch - 1) |-> [x \in 1..cw |-> "X"]]
      [] pat = "corners" ->
            IF ch = 1
            THEN [y \in {0} |-> [x \in 1..cw |-> IF x = 1 \/ x = cw THEN "X" ELSE " "]]
            ELSE [y \in {0, ch - 1} |->
                    IF y = 0 THEN <<"X">>
                    ELSE [x \in 1..cw |-> IF x = cw THEN "X" ELSE " "]]
      [] pat = "stairs" ->
            [y \in 0..ch |->
                [x \in 1..(cw + 1) |-> IF x - 1 = y \/ x = cw + 1 \/ y = ch THEN "X" ELSE "."]]

PatternOf(c, rot) == PatternSeq[((c + rot) % Len(PatternSeq)) + 1]

GlyphSet(S, rot, cw, ch) == [c \in S |-> Matrix(PatternOf(c, rot), cw, ch)]

Rotations == 0..(Len(PatternSeq) - 1)

\* the code sets: the first n codes, and the same without the first one
CodeSets == {FirstCode..(FirstCode + n - 1) : n \in 0..MaxGlyphs}
            \cup {(FirstCode + 1)..(FirstCode + n - 1) : n \in 2..MaxGlyphs}

\* the 7x1 fixture of TestGlyphPacking
Fixture7 == [c \in {65, 66, 67} |->
               [y \in {0} |->
                   CASE c = 65 -> <<"X", "X", "X", " ", " ", " ", "X">>
                     [] c = 66 -> <<"X", "X", " ", " ", "X", "X", " ">>
                     [] c = 67 -> <<"X", " ", "X", " ", "X", " ", "X">>]]

\* a uint32 written as its 32 binary digits, highest bit first
WordOfDigits(ds) == {32 - i : i \in {j \in 1..32 : ds[j] = 1}}

\* 0b00000000_01010101_00110011_01000111
Fixture7Encoding == << WordOfDigits(<<0,0,0,0,0,0,0,0, 0,1,0,1,0,1,0,1,
                                      0,0,1,1,0,0,1,1, 0,1,0,0,0,1,1,1>>) >>

PackInputs(cw, ch) ==
    {GlyphSet(S, rot, cw, ch) : S \in CodeSets, rot \in Rotations}
    \cup (IF cw = 7 /\ ch = 1 THEN {Fixture7} ELSE {})

\* a font large enough for the 16-bit charmap offset: the least number of
\* one-per-word glyphs of height 255 whose last block index needs 17 bits
LargeGlyphs == (65536 \div (4 * MaxUint8)) + 2
LargeCodes == FirstCode..(FirstCode + LargeGlyphs - 1)
LargeInput(cw, ch) ==
    [c \in LargeCodes |-> Matrix(IF c % 2 = 0 THEN "corners" ELSE "blank", cw, ch)]
FontInputs(cw, ch) == {GlyphSet(Codes, rot, cw, ch) : rot \in {0, 1}}

\* the ink of glyph c at row y, column x, as packFont reads it
Ink(dd, c, y, x) ==
    /\ y \in DOMAIN dd[c]
    /\ Len(dd[c][y]) > x
    /\ dd[c][y][x + 1] = "X"

\* ascending and descending sequences of a set of codes, and their rotations:
\* the orders "range d" is taken to yield
\* codes are consecutive in every input: the i-th lowest is the lowest + i - 1
Ascending(S) ==
    [i \in 1..Cardinality(S) |-> (CHOOSE v \in S : \A u \in S : v <= u) + i - 1]

Reverse(s) == [i \in 1..Len(s) |-> s[Len(s) + 1 - i]]
Rotate(s, k) == [i \in 1..Len(s) |-> s[((i - 1 + k) % Len(s)) + 1]]

IterOrders(S) ==
    IF S = {} THEN {<<>>}
    ELSE {Ascending(S), Reverse(Ascending(S)),
          Rotate(Ascending(S), 1), Rotate(Reverse(Ascending(S)), 1)}

TextRunes == {FirstCode, FirstCode + 2, AbsentCode}
Texts == UNION {[1..n -> TextRunes] : n \in 0..MaxText}

Positions == {<<0, 0>>, <<3, 1>>}
InkColor == "black"
BgPixel == <<3, 1, "bg">>

(***************************************************************************)
(* The state machine.                                                      *)
(***************************************************************************)
NotPacked == [status |-> "none", encoded |-> <<>>, cm |-> EmptyMap]
NoRet == [op |-> "none", x |-> 0, y |-> 0, c |-> 0, s |-> <<>>,
          panic |-> FALSE, found |-> FALSE, n |-> 0, calls |-> {}, before |-> {}]

\* the threads that call into the renderer, and a thread outside any call
Threads == {1, 2}

Idle == [pc |-> "idle", op |-> "none", x |-> 0, y |-> 0, s |-> <<>>, k |-> 0,
         cur |-> 0, yy |-> 0, wacc |-> 0, found |-> FALSE, n |-> 0, calls |-> {}]

NoCalls == [t \in Threads |-> Idle]

RestRenderer ==
    /\ packed = NotPacked
    /\ font = NoFont
    /\ varWidth = FALSE
    /\ Spacing = DefaultSpacing
    /\ surface = {}
    /\ ret = NoRet
    /\ running = NoCalls
    /\ sd = NoLines

Rest ==
    /\ RestRenderer
    /\ bdf = NotParsing

InitPack ==
    /\ w \in Widths
    /\ h \in Heights
    /\ d \in PackInputs(w, h)
    /\ Rest

InitLarge ==
    /\ w = MaxWidth
    /\ h = MaxUint8
    /\ d = LargeInput(w, h)
    /\ Rest

Init ==
    /\ w \in Widths
    /\ h \in Heights
    /\ d \in FontInputs(w, h)
    /\ Rest

\* encoded, cm := packFont(w, h, d)
PackFont ==
    /\ packed.status = "none"
    /\ \E iter \in IterOrders(DOMAIN d) : packed' = packFont(w, h, d, iter)
    /\ UNCHANGED <<sd, bdf, running, w, h, d, font, varWidth, Spacing, surface, ret>>

\* fnt := pixfont.NewPixFont(uint8(w), uint8(h), cm, encoded)
NewFont ==
    /\ packed.status = "ok"
    /\ ~font.built
    /\ font' = NewPixFont(ToUint8(w), ToUint8(h), packed.cm, packed.encoded)
    /\ varWidth' = FALSE
    /\ UNCHANGED <<sd, bdf, running, w, h, d, packed, Spacing, surface, ret>>

\* the (charmap, data) pairs a caller of NewPixFont may hold for a packed font:
\* the packer's result, the data cut short by one word, and the charmap with
\* its highest rune's offset moved past the end of data
Persisted(pk) ==
    {<<pk.cm, pk.encoded>>}
    \cup (IF Len(pk.encoded) > 0
          THEN {<<pk.cm, SubSeq(pk.encoded, 1, Len(pk.encoded) - 1)>>}
          ELSE {})
    \cup (IF DOMAIN pk.cm # {}
          THEN LET c == CHOOSE v \in DOMAIN pk.cm : \A u \in DOMAIN pk.cm : u <= v
               IN  {<<[pk.cm EXCEPT ![c] = ToUint16(pk.cm[c] + 4 * Len(pk.encoded))],
                      pk.encoded>>}
          ELSE {})

\* pixfont.NewPixFont(w, h, cm, data) on persisted font data
LoadFont ==
    /\ packed.status = "ok"
    /\ ~font.built
    /\ \E cd \in Persisted(packed) :
          font' = NewPixFont(ToUint8(w), ToUint8(h), cd[1], cd[2])
    /\ varWidth' = FALSE
    /\ UNCHANGED <<sd, bdf, running, w, h, d, packed, Spacing, surface, ret>>

\* fnt.SetVariableWidth(isVar)
CallSetVariableWidth ==
    /\ font.built
    /\ ret = NoRet
    /\ \E isVar \in BOOLEAN :
          /\ font' = SetVariableWidth(font, isVar)
          /\ varWidth' = isVar
    /\ UNCHANGED <<sd, bdf, running, w, h, d, packed, Spacing, surface, ret>>

\* pixfont.Spacing = v
SetSpacing ==
    /\ font.built
    /\ ret = NoRet
    /\ \E v \in 0..MaxSpacing : Spacing' = v
    /\ UNCHANGED <<sd, bdf, running, w, h, d, packed, font, varWidth, surface, ret>>

\* the caller takes a new surface, cleared or with a pixel of its own
NewSurface ==
    /\ font.built
    /\ \E own \in BOOLEAN : surface' = IF own THEN SetPixel({}, BgPixel) ELSE {}
    /\ ret' = NoRet
    /\ UNCHANGED <<sd, bdf, running, w, h, d, packed, font, varWidth, Spacing>>

Returned(op, x, y, c, s, r) ==
    [op |-> op, x |-> x, y |-> y, c |-> c, s |-> s,
     panic |-> r.panic, found |-> r.found, n |-> r.n, calls |-> r.calls,
     before |-> surface]

CallDrawRune ==
    /\ font.built
    /\ ret = NoRet
    /\ \E pos \in Positions, c \in DOMAIN d \cup {AbsentCode} :
          LET r == DrawRune(font, Spacing, pos[1], pos[2], c, InkColor)
          IN  /\ surface' = ApplyCalls(surface, r.calls)
              /\ ret' = Returned("DrawRune", pos[1], pos[2], c, <<>>, r)
    /\ UNCHANGED <<sd, bdf, running, w, h, d, packed, font, varWidth, Spacing>>

CallDrawString ==
    /\ font.built
    /\ ret = NoRet
    /\ \E pos \in Positions, s \in Texts :
          LET r == DrawString(font, Spacing, pos[1], pos[2], s, InkColor)
          IN  /\ surface' = ApplyCalls(surface, r.calls)
              /\ ret' = Returned("DrawString", pos[1], pos[2], 0, s, r)
    /\ UNCHANGED <<sd, bdf, running, w, h, d, packed, font, varWidth, Spacing>>

CallMeasureRune ==
    /\ font.built
    /\ ret = NoRet
    /\ \E c \in DOMAIN d \cup {AbsentCode} :
          ret' = Returned("MeasureRune", 0, 0, c, <<>>, MeasureRune(font, Spacing, c))
    /\ UNCHANGED <<sd, bdf, running, w, h, d, packed, font, varWidth, Spacing, surface>>

CallMeasureString ==
    /\ font.built
    /\ ret = NoRet
    /\ \E s \in Texts :
          ret' = Returned("MeasureString", 0, 0, 0, s, MeasureString(font, Spacing, s))
    /\ UNCHANGED <<sd, bdf, running, w, h, d, packed, font, varWidth, Spacing, surface>>

(***************************************************************************)
(* Renderer calls running concurrently on one font.  A call is followed    *)
(* loop iteration by loop iteration: "rune" is the head of the loop over   *)
(* the runes (a single rune for DrawRune and MeasureRune), "row" the head  *)
(* of the yy loop, "advance" the code after the yy loop.  Every thread has *)
(* its own Drawable; font and Spacing are read where the code reads them.  *)
(***************************************************************************)
isDraw(op) == op \in {"DrawRune", "DrawString"}
isString(op) == op \in {"DrawString", "MeasureString"}

\* the text the concurrent string calls use, and the calls of thread t
ConcText == <<FirstCode, AbsentCode, FirstCode + 2>>
ConcPosition(t) == IF t = 1 THEN <<0, 0>> ELSE <<3, 1>>
ConcCalls(t) ==
    {[op |-> o, x |-> ConcPosition(t)[1], y |-> ConcPosition(t)[2], s |-> <<c>>] :
        o \in {"DrawRune", "MeasureRune"}, c \in {FirstCode, AbsentCode}}
    \cup {[op |-> o, x |-> ConcPosition(t)[1], y |-> ConcPosition(t)[2], s |-> ConcText] :
        o \in {"DrawString", "MeasureString"}}

\* the entry of a call: MeasureString starts its cursor at x := 0
startCall(call) ==
    [Idle EXCEPT !.pc = "rune", !.op = call.op, !.x = call.x, !.y = call.y,
                 !.s = call.s, !.k = 1,
                 !.cur = IF isDraw(call.op) THEN call.x ELSE 0]

\* a yy loop that reads the first row of the glyph on every iteration
rowOfFirst(p, poff, yy) == p.data[pindexOf(poff) + 1]

\* d[yy], with d := p.data[pindex : pindex+int(p.charHeight)]
rowOf(p, poff, yy) == p.data[pindexOf(poff) + yy + 1]

\* the head of the loop over the runes: the lookup and the early returns
runeStep(p, sp, st) ==
    IF st.k > Len(st.s) THEN [st EXCEPT !.pc = "done", !.n = st.cur]
    ELSE LET c == st.s[st.k]
         IN  IF ~isDraw(st.op) /\ p.varCharWidth = p.charWidth
             THEN [st EXCEPT !.pc = "advance", !.found = c \in DOMAIN p.charmap,
                             !.wacc = p.charWidth]
             ELSE IF c \notin DOMAIN p.charmap
             THEN [st EXCEPT !.pc = "advance", !.found = FALSE,
                             !.wacc = p.varCharWidth]
             ELSE IF SliceOutOfRange(p, p.charmap[c])
             THEN [st EXCEPT !.pc = "panic"]
             ELSE [st EXCEPT !.pc = "row", !.yy = 0,
                             !.wacc = IF isDraw(st.op) /\ p.varCharWidth = p.charWidth
                                      THEN p.charWidth ELSE 0]

\* one iteration of the yy loop of DrawRune or MeasureRune
rowStep(p, sp, st) ==
    IF st.yy >= p.charHeight THEN [st EXCEPT !.pc = "advance", !.found = TRUE]
    ELSE LET poff == p.charmap[st.s[st.k]]
             line == rowOf(p, poff, st.yy)
         IN  IF isDraw(st.op)
             THEN LET a == [cw |-> p.charWidth, ch |-> p.charHeight, x |-> st.cur,
                            y |-> st.y, clr |-> InkColor, sp |-> sp]
                      acc == drawCols(line, OneShl(psubOf(poff)), 0, st.yy, a,
                                      [w |-> st.wacc, calls |-> st.calls])
                  IN  [st EXCEPT !.yy = st.yy + 1, !.wacc = acc.w, !.calls = acc.calls]
             ELSE [st EXCEPT !.yy = st.yy + 1,
                             !.wacc = measureCols(line, OneShl(psubOf(poff)), st.wacc,
                                                  p.charWidth, sp, st.wacc)]

\* the return of a rune call; x += w + Spacing in a string call
advanceStep(p, sp, st) ==
    IF isString(st.op)
    THEN [st EXCEPT !.pc = "rune", !.k = st.k + 1, !.cur = advance(st.cur, st.wacc, sp)]
    ELSE [st EXCEPT !.pc = "done", !.n = st.wacc]

stepCall(p, sp, st) ==
    CASE st.pc = "rune" -> runeStep(p, sp, st)
      [] st.pc = "row" -> rowStep(p, sp, st)
      [] st.pc = "advance" -> advanceStep(p, sp, st)

\* a thread calls into the renderer
BeginCall ==
    /\ font.built
    /\ \E t \in Threads :
          /\ running[t].pc = "idle"
          /\ \E call \in ConcCalls(t) :
                running' = [running EXCEPT ![t] = startCall(call)]
    /\ UNCHANGED <<sd, bdf, w, h, d, packed, font, varWidth, Spacing, surface, ret>>

\* a thread runs one loop iteration of its call
StepCall ==
    /\ \E t \in Threads :
          /\ running[t].pc \in {"rune", "row", "advance"}
          /\ running' = [running EXCEPT ![t] = stepCall(font, Spacing, running[t])]
    /\ UNCHANGED <<sd, bdf, w, h, d, packed, font, varWidth, Spacing, surface, ret>>

\* the caller takes the result
EndCall ==
    /\ \E t \in Threads :
          /\ running[t].pc \in {"done", "panic"}
          /\ running' = [running EXCEPT ![t] = Idle]
    /\ UNCHANGED <<sd, bdf, w, h, d, packed, font, varWidth, Spacing, surface, ret>>

\* SetVariableWidth while no renderer call is running
QuietSetVariableWidth ==
    /\ \A t \in Threads : running[t].pc = "idle"
    /\ CallSetVariableWidth

\* sd.Set(x, y, clr) on a StringDrawable; surface keeps the calls made
CallStringDrawableSet ==
    /\ \E x \in 0..MaxX, y \in 0..MaxY :
          /\ sd' = StringDrawableSet(sd, x, y)
          /\ surface' = SetPixel(surface, <<x, y, InkColor>>)
    /\ UNCHANGED <<w, h, d, packed, font, varWidth, Spacing, ret, running, bdf>>

\* a caller reads sd.String() and takes a new StringDrawable
NewStringDrawable ==
    /\ sd # NoLines
    /\ sd' = NoLines
    /\ surface' = {}
    /\ UNCHANGED <<w, h, d, packed, font, varWidth, Spacing, ret, running, bdf>>

OtherThanBDF == <<w, h, d, packed, font, varWidth, Spacing, surface, ret, running, sd>>

\* one iteration of "for s.Scan() { ... }", the header loop
BDFHeaderScan ==
    /\ bdf.pc = "header"
    /\ LET b == Scan(bdf)
       IN  bdf' =
             IF ~ScanOk(bdf) THEN [b EXCEPT !.pc = "chars"]
             ELSE IF b.NumProperties # Cardinality(b.Properties)
             THEN [b EXCEPT !.Properties = b.Properties \cup {b.tok.key}]
             ELSE LET b2 == applyParser(b, b.tok)
                  IN  IF b2.NumGlyphs > 0 THEN [b2 EXCEPT !.pc = "chars"] ELSE b2
    /\ UNCHANGED OtherThanBDF

\* fnt.Glyphs = make(...); s.Scan(); i := 0
BDFGlyphsScan ==
    /\ bdf.pc = "chars"
    /\ bdf' = [Scan(bdf) EXCEPT !.pc = "glyph", !.i = 0]
    /\ UNCHANGED OtherThanBDF

\* for i < fnt.NumGlyphs { line := s.Text() ...  }  return fnt, err
BDFGlyphLoop ==
    /\ bdf.pc = "glyph"
    /\ bdf' = IF bdf.i < bdf.NumGlyphs
              THEN [bdf EXCEPT !.pc = "findStart", !.line = bdf.tok]
              ELSE [bdf EXCEPT !.pc = "return"]
    /\ UNCHANGED OtherThanBDF

\* the test of "for !strings.HasPrefix(line, "STARTCHAR")"
BDFFindStartTest ==
    /\ bdf.pc = "findStart"
    /\ bdf' = IF HasPrefixStartChar(bdf.line)
              THEN [bdf EXCEPT !.pc = "startchar"]
              ELSE [bdf EXCEPT !.pc = "scanStart"]
    /\ UNCHANGED OtherThanBDF

\* its body: s.Scan(); line = s.Text()
BDFFindStartScan ==
    /\ bdf.pc = "scanStart"
    /\ bdf' = LET b == Scan(bdf) IN [b EXCEPT !.pc = "findStart", !.line = b.tok]
    /\ UNCHANGED OtherThanBDF

\* ch := &BDFontChar{...}; s.Scan(); parts := strings.SplitN(s.Text(), " ", 2)
BDFStartChar ==
    /\ bdf.pc = "startchar"
    /\ bdf' = LET b == Scan(bdf)
              IN  [b EXCEPT !.pc = "findBitmap", !.parts = b.tok, !.height = 0]
    /\ UNCHANGED OtherThanBDF

\* the test of "for parts[0] != "BITMAP"" and the charparsers call;
\* after the loop ch.Bitmap = make([]uint32, ch.BoundingBox[1]); h := 0
BDFFindBitmapTest ==
    /\ bdf.pc = "findBitmap"
    /\ bdf' = IF bdf.parts.key = "BITMAP"
              THEN [bdf EXCEPT !.pc = "rows", !.hh = 0]
              ELSE [bdf EXCEPT !.pc = "scanProp",
                               !.height = IF bdf.parts.key = "BBX"
                                          THEN bdf.parts.n ELSE bdf.height]
    /\ UNCHANGED OtherThanBDF

\* the end of its body: s.Scan(); parts = strings.SplitN(s.Text(), " ", 2)
BDFFindBitmapScan ==
    /\ bdf.pc = "scanProp"
    /\ bdf' = LET b == Scan(bdf) IN [b EXCEPT !.pc = "findBitmap", !.parts = b.tok]
    /\ UNCHANGED OtherThanBDF

\* for h < ch.BoundingBox[1] { s.Scan(); Sscanf(...) }; fnt.Glyphs[...] = ch; i++
BDFBitmapRow ==
    /\ bdf.pc = "rows"
    /\ bdf' = IF bdf.hh < bdf.height
              THEN [Scan(bdf) EXCEPT !.hh = bdf.hh + 1]
              ELSE [bdf EXCEPT !.pc = "glyph", !.i = bdf.i + 1]
    /\ UNCHANGED OtherThanBDF

Next ==
    \/ PackFont
    \/ NewFont
    \/ CallSetVariableWidth
    \/ SetSpacing
    \/ NewSurface
    \/ CallDrawRune
    \/ CallDrawString
    \/ CallMeasureRune
    \/ CallMeasureString

Spec == Init /\ [][Next]_vars

NextPack ==
    \/ PackFont
    \/ NewFont
    \/ NewSurface
    \/ CallDrawRune

SpecPack == InitPack /\ [][NextPack]_vars

SpecLarge == InitLarge /\ [][NextPack]_vars

\* fonts built by NewPixFont from persisted data
NextLoad ==
    \/ PackFont
    \/ LoadFont
    \/ CallSetVariableWidth
    \/ NewSurface
    \/ CallDrawRune
    \/ CallMeasureRune

SpecLoad == Init /\ [][NextLoad]_vars

\* cell sizes at and beyond the limits of the packer and of uint8
DimWidths == {0, 1, MaxWidth, MaxWidth + 1}
DimHeights == {0, 1, MaxUint8 + 1, MaxUint8 + 2}

InitDims ==
    /\ w \in DimWidths
    /\ h \in DimHeights
    /\ d \in FontInputs(w, h)
    /\ Rest

SpecDims == InitDims /\ [][NextPack]_vars

\* cell widths of the three lane layouts for the concurrent calls
ConcWidths == {2, 12, MaxWidth}

InitConc ==
    /\ w \in ConcWidths
    /\ h \in Heights
    /\ d \in FontInputs(w, h)
    /\ Rest

NextConc ==
    \/ PackFont
    \/ NewFont
    \/ QuietSetVariableWidth
    \/ BeginCall
    \/ StepCall
    \/ EndCall

SpecConc == InitConc /\ [][NextConc]_vars

\* a StringDrawable that receives Set calls
InitSD ==
    /\ w = 1
    /\ h = 1
    /\ d = GlyphSet(Codes, 0, w, h)
    /\ Rest

NextSD ==
    \/ CallStringDrawableSet
    \/ NewStringDrawable

SpecSD == InitSD /\ [][NextSD]_vars

\* OpenBDF on every input of up to MaxLines lines
InitBDF ==
    /\ w = 1
    /\ h = 1
    /\ d = GlyphSet(Codes, 0, w, h)
    /\ RestRenderer
    /\ bdf \in {OpenBDFEntry(input) : input \in BDFInputs}

NextBDF ==
    \/ BDFHeaderScan
    \/ BDFGlyphsScan
    \/ BDFGlyphLoop
    \/ BDFFindStartTest
    \/ BDFFindStartScan
    \/ BDFStartChar
    \/ BDFFindBitmapTest
    \/ BDFFindBitmapScan
    \/ BDFBitmapRow

\* OpenBDF runs on one goroutine that is never suspended for good: a step
\* that can be taken is taken
SpecBDF == InitBDF /\ [][NextBDF]_vars /\ WF_vars(NextBDF)

(***************************************************************************)
(* What the claims speak of.                                               *)
(***************************************************************************)
\* the glyphs packed per word, by cell width
GlyphsPerWord(cw) == IF cw <= 8 THEN 4 ELSE IF cw <= 16 THEN 2 ELSE 1
LaneStride(cw) == 4 \div GlyphsPerWord(cw)
CeilDiv(a, b) == (a + b - 1) \div b

\* the position of code c in ascending order, from 0
Rank(c) == Cardinality({u \in DOMAIN d : u < c})

\* the cells of glyph c that carry ink inside the cw x ch cell, as <<row, col>>
InkCells(c) ==
    {rc \in (DOMAIN d[c] \cap (0..(h - 1))) \X (0..(w - 1)) : Ink(d, c, rc[1], rc[2])}

\* the Set calls that draw glyph c at (x, y)
ExpectedPixels(c, x, y) == {<<x + rc[2], y + rc[1], InkColor>> : rc \in InkCells(c)}

WellFormed == w \in 1..MaxWidth /\ h >= 1

\* C1: round trip.  Drawing a packed glyph with DrawRune on the font built
\* from packFont's result sets exactly the pixels (x+col, y+row) whose input
\* cell (row, col) is 'X', for every glyph set with 1 <= w <= 32 and h >= 1.
C1_RoundTrip ==
    (ret.op = "DrawRune" /\ ret.c \in DOMAIN d /\ WellFormed)
        => /\ ~ret.panic
           /\ ret.found
           /\ ret.calls = ExpectedPixels(ret.c, ret.x, ret.y)

\* C2: packed layout.  The k-th glyph in ascending code order lies in word
\* block k div glyphsPerWord, byte lane (k mod glyphsPerWord) * laneStride;
\* bit 8*lane + x of data[block*h + y] is 1 exactly when row y has 'X' at
\* column x; the 7x1 fixture A,B,C packs to 0b00000000_01010101_00110011_01000111.
C2_PackedLayout ==
    packed.status = "ok" =>
        /\ \A c \in DOMAIN d :
              LET k == Rank(c)
                  block == k \div GlyphsPerWord(w)
                  lane == (k % GlyphsPerWord(w)) * LaneStride(w)
              IN  \A y \in 0..(h - 1), x \in 0..(w - 1) :
                     ((8 * lane + x) \in packed.encoded[block * h + y + 1])
                        <=> Ink(d, c, y, x)
        /\ (d = Fixture7 /\ w = 7 /\ h = 1) => packed.encoded = Fixture7Encoding

C2_Witness ==
    /\ packed.status = "ok"
    /\ w = 7
    /\ h = 2
    /\ Cardinality(DOMAIN d) = 5
    /\ packed.encoded[1] # {}
    /\ packed.encoded[4] # {}
    /\ \E c \in DOMAIN d : packed.cm[c] = 8

\* C3: width selection and data size.  1..8 -> 4 glyphs per word, 9..16 -> 2,
\* 17..32 -> 1: glyph k starts at word (k div glyphsPerWord) * h; and
\* len(data) = h * ceil(glyphCount / glyphsPerWord), a multiple of h.
C3_WidthSelectionAndSize ==
    packed.status = "ok" =>
        /\ WellFormed
        /\ \A c \in DOMAIN d :
              packed.cm[c] \div 4 = (Rank(c) \div GlyphsPerWord(w)) * h
        /\ Len(packed.encoded)
              = h * CeilDiv(Cardinality(DOMAIN d), GlyphsPerWord(w))
        /\ Len(packed.encoded) % h = 0

C3_Witness ==
    /\ packed.status = "ok"
    /\ w = 9
    /\ h = 1
    /\ Cardinality(DOMAIN d) = 3
    /\ Len(packed.encoded) = 2

\* the bits of a word block that belong to glyph c: rows of its block, the
\* bit range [8*lane, 8*lane + w) of its lane, as <<word index, bit>>
OwnBits(c) ==
    LET first == packed.cm[c] \div 4
        lane == packed.cm[c] % 4
    IN  ((first + 1)..(first + h)) \X ((8 * lane)..(8 * lane + w - 1))

\* the packed words of d with glyph c's matrix replaced by m
Repacked(c, m) ==
    packFont(w, h, [d EXCEPT ![c] = m], Ascending(DOMAIN d)).encoded

\* C4: lane isolation.  Two distinct glyphs of one word block have disjoint
\* bit ranges [8*lane, 8*lane + w), every range ends at or below bit 32 (no
\* ink is shifted past bit 31), and changing one glyph's matrix changes no
\* bit of another glyph.
C4_LaneIsolation ==
    (packed.status = "ok" /\ ~font.built) =>
        /\ \A c \in DOMAIN d : 8 * (packed.cm[c] % 4) + w <= 32
        /\ \A c1, c2 \in DOMAIN d : c1 # c2 => OwnBits(c1) \cap OwnBits(c2) = {}
        /\ \A c \in DOMAIN d :
              Cardinality({wb \in OwnBits(c) : wb[2] \in packed.encoded[wb[1]]})
                 = Cardinality(InkCells(c))
        /\ \A c \in DOMAIN d :
              \A m \in {Matrix("blank", w, h), Matrix("full", w, h)} :
                 LET other == Repacked(c, m)
                 IN  \A i \in 1..Len(packed.encoded), b \in 0..31 :
                        ((b \in other[i]) # (b \in packed.encoded[i]))
                           => <<i, b>> \in OwnBits(c)

C4_Witness ==
    /\ packed.status = "ok"
    /\ ~font.built
    /\ w = 15
    /\ Cardinality(DOMAIN d) >= 2
    /\ \E c1, c2 \in DOMAIN d :
          /\ c1 # c2
          /\ packed.cm[c1] \div 4 = packed.cm[c2] \div 4
          /\ InkCells(c1) # {}
          /\ InkCells(c2) # {}
          /\ \E rc \in InkCells(c1) : rc[2] = w - 1

\* C5: determinism.  packFont processes glyphs in ascending code order: the
\* data and charmap returned are the same whatever order the input map is
\* iterated in.
C5_Determinism ==
    (packed.status = "ok" /\ ~font.built) =>
        \A iter \in IterOrders(DOMAIN d) : packFont(w, h, d, iter) = packed

C5_Witness ==
    /\ packed.status = "ok"
    /\ ~font.built
    /\ Cardinality(DOMAIN d) >= 3
    /\ \E c1, c2 \in DOMAIN d : c1 < c2 /\ InkCells(c1) # InkCells(c2)
    /\ packFont(w, h, d, Reverse(Ascending(DOMAIN d))) = packed

\* the runes a caller looks up: the glyphs of the font and a rune it lacks
Lookups == DOMAIN d \cup {AbsentCode}

\* C6: measurement consistency.  In variable-width mode MeasureRune(c)
\* returns the same (found, advance) as DrawRune(dr, x, y, c, clr), for
\* every font and every rune.
C6_MeasureEqualsDraw ==
    (font.built /\ varWidth) =>
        \A c \in Lookups :
            LET m == MeasureRune(font, Spacing, c)
                r == DrawRune(font, Spacing, 0, 0, c, InkColor)
            IN  m.found = r.found /\ m.n = r.n

\* max(3, cellWidth/3)
FallbackAdvance(cw) == IF cw \div 3 > 3 THEN cw \div 3 ELSE 3

\* C7: unknown-glyph advance.  For a rune absent from the charmap MeasureRune
\* and DrawRune return found = false and advance max(3, cellWidth/3) with
\* variable width enabled, cellWidth with it disabled; neither fails.
C7_UnknownGlyphAdvance ==
    font.built =>
        \A c \in Lookups \ DOMAIN font.charmap :
            LET m == MeasureRune(font, Spacing, c)
                r == DrawRune(font, Spacing, 0, 0, c, InkColor)
                adv == IF varWidth THEN FallbackAdvance(font.charWidth)
                       ELSE font.charWidth
            IN  /\ ~m.panic /\ ~m.found /\ m.n = adv
                /\ ~r.panic /\ ~r.found /\ r.n = adv

C7_Witness ==
    /\ ret.op = "MeasureRune"
    /\ ret.c \notin DOMAIN font.charmap
    /\ varWidth
    /\ font.charWidth = 7
    /\ ~ret.found
    /\ ret.n = 3

\* the pixels of the glyph at charmap offset poff that are 1 in data, drawn
\* at (x, y): bit 8*(poff & 3) + xx of data[(poff >> 2) + yy]
DataPixels(p, poff, x, y) ==
    {<<x + b[2], y + b[1], InkColor>> :
        b \in {yx \in (0..(p.charHeight - 1)) \X (0..(p.charWidth - 1)) :
                 (8 * (poff % 4) + yx[2]) \in p.data[(poff \div 4) + yx[1] + 1]}}

\* C8: DrawRune on a present glyph calls Set exactly at the (x+xx, y+yy),
\* with the given color, whose bit 8*(offset & 3) + xx of
\* data[(offset >> 2) + yy] is 1, 0 <= xx < cellWidth, 0 <= yy < cellHeight.
C8_DrawRuneSetsDataBits ==
    (ret.op = "DrawRune" /\ ret.c \in DOMAIN font.charmap) =>
        /\ ~ret.panic
        /\ ret.found
        /\ ret.calls = DataPixels(font, font.charmap[ret.c], ret.x, ret.y)
        /\ surface = ApplyCalls(ret.before, ret.calls)

C8_Witness ==
    /\ ret.op = "DrawRune"
    /\ ret.found
    /\ ret.x = 3
    /\ font.charmap[ret.c] % 4 = 2
    /\ font.charmap[ret.c] \div 4 = 0
    /\ font.charHeight = 2
    /\ Cardinality(ret.calls) = 2
    /\ ret.before # {}

\* C9: a rune with no representation: DrawRune returns false and does no
\* drawing; the surface gets no Set call and stays as it was, in both modes.
C9_MissingRuneDrawsNothing ==
    (ret.op = "DrawRune" /\ ret.c \notin DOMAIN font.charmap) =>
        /\ ~ret.panic
        /\ ~ret.found
        /\ ret.calls = {}
        /\ surface = ret.before

C9_Witness ==
    /\ ret.op = "DrawRune"
    /\ ret.c \notin DOMAIN font.charmap
    /\ ~ret.found
    /\ varWidth
    /\ ret.before # {}
    /\ surface = ret.before

\* the advance DrawRune returns for rune c (it does not depend on x, y)
AdvanceOf(c) == DrawRune(font, Spacing, 0, 0, c, InkColor).n

\* the cursor before rune k of text s drawn from x
RECURSIVE CursorAt(_, _, _)
CursorAt(s, x, k) ==
    IF k = 1 THEN x ELSE CursorAt(s, x, k - 1) + AdvanceOf(s[k - 1]) + Spacing

TotalAdvance(s) == CursorAt(s, 0, Len(s) + 1)

\* C11: DrawString returns the total pixel advance used by the string: the
\* sum over its runes of (advance + Spacing), whatever the start position x.
C11_DrawStringTotalAdvance ==
    ret.op = "DrawString" => ret.n = TotalAdvance(ret.s)

\* C12: MeasureString is DrawString without the drawing: for every text it
\* returns what DrawString returns when started at x = 0, in both modes.
C12_MeasureStringEqualsDrawString ==
    ret.op = "MeasureString" =>
        ret.n = DrawString(font, Spacing, 0, 0, ret.s, InkColor).n

\* C13: pre-sizing.  Every pixel DrawString(dr, x0, y0, text, clr) sets has
\* x0 <= x < x0 + MeasureString(text) and y0 <= y < y0 + cellHeight.
C13_MeasuredSurfaceHoldsText ==
    ret.op = "DrawString" =>
        \A px \in ret.calls :
            /\ ret.x <= px[1]
            /\ px[1] < ret.x + MeasureString(font, Spacing, ret.s).n
            /\ ret.y <= px[2]
            /\ px[2] < ret.y + font.charHeight

\* C14: fixed-width mode (a font as NewPixFont returns it, or after
\* SetVariableWidth(false)).  MeasureRune and DrawRune return advance
\* cellWidth for every rune, present or absent, whatever the glyph's ink;
\* found is true exactly when the rune is in the charmap.
C14_FixedWidthAdvance ==
    (font.built /\ ~varWidth) =>
        /\ \A c \in Lookups :
              LET m == MeasureRune(font, Spacing, c)
                  r == DrawRune(font, Spacing, 0, 0, c, InkColor)
              IN  /\ m.n = font.charWidth /\ (m.found <=> c \in DOMAIN font.charmap)
                  /\ r.n = font.charWidth /\ (r.found <=> c \in DOMAIN font.charmap)
        /\ (ret.op \in {"DrawRune", "MeasureRune"}) =>
              /\ ret.n = font.charWidth
              /\ ret.found <=> ret.c \in DOMAIN font.charmap

C14_Witness ==
    /\ ret.op = "DrawRune"
    /\ ~varWidth
    /\ font.charWidth = 12
    /\ ret.found
    /\ ret.calls = {}
    /\ ret.n = 12
    /\ MeasureRune(font, Spacing, AbsentCode).n = 12

\* one past the highest column of glyph c that has ink in any row; 0 for a
\* glyph with no ink
InkWidth(c) ==
    IF InkCells(c) = {} THEN 0
    ELSE (CHOOSE x \in {rc[2] : rc \in InkCells(c)} :
              \A rc \in InkCells(c) : rc[2] <= x) + 1

\* C15: with variable width enabled and Spacing at its default 1, DrawRune on
\* a present glyph returns one past the highest column that has ink in any
\* row, and 0 for a glyph with no ink, for every cellWidth in 1..32.
C15_VariableDrawReportsInkWidth ==
    (ret.op = "DrawRune" /\ varWidth /\ Spacing = DefaultSpacing
        /\ ret.c \in DOMAIN font.charmap) =>
        ret.found /\ ret.n = InkWidth(ret.c)

\* C16: in variable-width mode, with Spacing at its default 1, MeasureRune on
\* a present glyph returns one past the highest set-bit column over all rows;
\* a present glyph with no ink measures to 0.
C16_VariableMeasureReportsInkWidth ==
    (ret.op = "MeasureRune" /\ varWidth /\ Spacing = DefaultSpacing
        /\ ret.c \in DOMAIN font.charmap) =>
        ret.found /\ ret.n = InkWidth(ret.c)

\* a font whose every glyph's word range lies in data, and whose data is a
\* whole number of rows of height cellHeight
FontDataWellFormed(p) ==
    /\ p.charHeight > 0
    /\ Len(p.data) % p.charHeight = 0
    /\ \A c \in DOMAIN p.charmap :
          pindexOf(p.charmap[c]) + p.charHeight <= Len(p.data)

\* C17: malformed font data (a charmap offset whose word range lies outside
\* data, or len(data) not a multiple of cellHeight) is detected when the font
\* is constructed: a constructed font is well formed, and no DrawRune or
\* MeasureRune call indexes data out of bounds.
C17_CorruptFontDetectedAtLoad ==
    /\ font.built => FontDataWellFormed(font)
    /\ (ret.op \in {"DrawRune", "MeasureRune"}) => ~ret.panic

\* C18: the packer rejects a cell width outside 1..32 or a height <= 0 with
\* InvalidDimension, and the font built from the packed result has the
\* packer's width and height, not their low 8 bits.
C18_InvalidDimensionRejected ==
    /\ (packed.status # "none" /\ ~(w \in 1..MaxWidth /\ h >= 1)) =>
          packed.status = "InvalidDimension"
    /\ font.built => (font.charWidth = w /\ font.charHeight = h)

\* C19: read-only rendering.  DrawRune, DrawString, MeasureRune and
\* MeasureString leave every field of the font unchanged; after construction
\* only SetVariableWidth changes the font, and only its variable-width basis.
C19_ReadOnlyRendering ==
    [][font.built =>
          /\ font'.charWidth = font.charWidth
          /\ font'.charHeight = font.charHeight
          /\ font'.charmap = font.charmap
          /\ font'.data = font.data
          /\ (ret' # ret /\ ret'.op # "none") => font' = font
          /\ font' # font =>
                /\ ret' = ret
                /\ surface' = surface
                /\ \E isVar \in BOOLEAN : font' = SetVariableWidth(font, isVar)]_vars

C19_Witness ==
    /\ ret.op = "DrawString"
    /\ ret.calls # {}
    /\ varWidth
    /\ font.varCharWidth # font.charWidth
    /\ font.charWidth = w
    /\ font.charHeight = h
    /\ font.charmap = packed.cm
    /\ font.data = packed.encoded

\* what a call returns and draws when it runs alone
Alone(st) ==
    CASE st.op = "DrawRune" -> DrawRune(font, Spacing, st.x, st.y, st.s[1], InkColor)
      [] st.op = "MeasureRune" -> MeasureRune(font, Spacing, st.s[1])
      [] st.op = "DrawString" -> DrawString(font, Spacing, st.x, st.y, st.s, InkColor)
      [] st.op = "MeasureString" -> MeasureString(font, Spacing, st.s)

\* C20: concurrent read-only use.  In every interleaving of DrawRune,
\* DrawString, MeasureRune and MeasureString calls on one shared font, each
\* with its own surface and with no SetVariableWidth or change of Spacing
\* while a call runs, every call returns the value and sets the pixels it
\* returns and sets when it runs alone.
C20_ConcurrentReadOnlyUse ==
    \A t \in Threads :
        /\ running[t].pc # "panic"
        /\ running[t].pc = "done" =>
              LET st == running[t]
                  r == Alone(st)
              IN  /\ st.n = r.n
                  /\ st.calls = r.calls
                  /\ (~isString(st.op)) => (st.found = r.found)

C20_Witness ==
    /\ running[1].pc = "done"
    /\ running[1].op = "DrawString"
    /\ running[1].calls # {}
    /\ running[2].pc = "row"
    /\ running[2].op = "MeasureString"
    /\ running[2].k = 3
    /\ running[2].yy = 1
    /\ varWidth
    /\ font.varCharWidth # font.charWidth

\* C21: mode toggle.  After any sequence of SetVariableWidth calls the
\* fallback/advance basis depends only on the last call: cellWidth if it
\* disabled variable width (or no call was made), max(3, cellWidth/3) if it
\* enabled it; a font with variable width disabled is the font NewPixFont
\* returned.
C21_ModeToggle ==
    font.built =>
        /\ font.varCharWidth = IF varWidth THEN FallbackAdvance(font.charWidth)
                               ELSE font.charWidth
        /\ ~varWidth => font = NewPixFont(font.charWidth, font.charHeight,
                                          font.charmap, font.data)
        /\ LET on == SetVariableWidth(font, TRUE)
               off == SetVariableWidth(font, FALSE)
           IN  /\ SetVariableWidth(on, TRUE) = on
               /\ SetVariableWidth(off, TRUE) = on
               /\ SetVariableWidth(on, FALSE) = off
               /\ off = NewPixFont(font.charWidth, font.charHeight,
                                   font.charmap, font.data)

C21_Witness ==
    /\ font.built
    /\ varWidth
    /\ font.charWidth = 30
    /\ font.varCharWidth = 10
    /\ ret.op = "MeasureRune"
    /\ ~ret.found
    /\ ret.n = 10

C23_PackerMemorySafety ==
    (WellFormed /\ packed.status # "none") =>
        /\ packed.status = "ok"
        /\ DOMAIN packed.cm = DOMAIN d
        /\ \A c \in DOMAIN d, y \in 0..(h - 1) :
              (Rank(c) \div GlyphsPerWord(w)) * h + y < Len(packed.encoded)

C23_Witness ==
    /\ packed.status = "ok"
    /\ w = 9
    /\ h = 2
    /\ Cardinality(DOMAIN d) = 3
    /\ Len(packed.encoded) = 4
    /\ \E c \in DOMAIN d : pindexOf(packed.cm[c]) = 2

\* the bits of data that hold glyph c: <<word index, bit>> for the rows of
\* its block and the columns x < w of its lane
CellBits(c) ==
    LET first == (Rank(c) \div GlyphsPerWord(w)) * h
        lane == (Rank(c) % GlyphsPerWord(w)) * LaneStride(w)
    IN  ((first + 1)..(first + h)) \X ((8 * lane)..(8 * lane + w - 1))

\* C24: unused bits stay zero.  Every 1 bit of the data packFont returns is
\* bit 8*lane + x, x < cellWidth, of a row word of some packed glyph: the
\* high bits of a lane, the lanes the stride skips and the unoccupied lanes
\* of the last block are 0.
C24_UnusedBitsStayZero ==
    packed.status = "ok" =>
        \A i \in 1..Len(packed.encoded) :
            \A b \in packed.encoded[i] :
                \E c \in DOMAIN d : <<i, b>> \in CellBits(c)

C24_Witness ==
    /\ packed.status = "ok"
    /\ w = 5
    /\ h = 2
    /\ Cardinality(DOMAIN d) = 5
    /\ \E c \in DOMAIN d : h \in DOMAIN d[c] /\ Len(d[c][0]) > w
    /\ packed.encoded[3] # {}
    /\ \A b \in packed.encoded[3] : b < w

\* the glyph set written out in full: every row 0..ch-1 present, cw columns
\* long, 'X' for ink and a space for no ink
Normalized(dd, cw, ch) ==
    [c \in DOMAIN dd |->
        [y \in 0..(ch - 1) |->
            [x \in 1..cw |-> IF Ink(dd, c, y, x - 1) THEN "X" ELSE " "]]]

\* C25: input tolerance.  A short row counts as padded with no-ink, an
\* absent row as all no-ink, a marker other than 'X' as no-ink, and columns
\* >= cellWidth and rows >= cellHeight are ignored: the packer does not
\* fail on them and returns what it returns for the glyph set written out
\* in full.
C25_InputTolerance ==
    (WellFormed /\ packed.status # "none") =>
        /\ packed.status = "ok"
        /\ LET full == packFont(w, h, Normalized(d, w, h), Ascending(DOMAIN d))
           IN  /\ packed.encoded = full.encoded
               /\ packed.cm = full.cm

C25_Witness ==
    /\ packed.status = "ok"
    /\ w = 5
    /\ h = 2
    /\ \E c \in DOMAIN d : DOMAIN d[c] = {}
    /\ \E c \in DOMAIN d : 0 \in DOMAIN d[c] /\ Len(d[c][0]) < w
    /\ \E c \in DOMAIN d :
          /\ h \in DOMAIN d[c]
          /\ Len(d[c][0]) > w
          /\ d[c][0][2] = "."
          /\ d[c][0][w + 1] = "X"
    /\ Normalized(d, w, h) # d

C29_AdvanceIsHighestColumnPlusSpacing ==
    (ret.op = "DrawRune" /\ varWidth /\ ret.c \in DOMAIN font.charmap
        /\ InkCells(ret.c) # {}) =>
        ret.n = (InkWidth(ret.c) - 1) + Spacing

\* the lines of a text: the byte sequences that end at each "\n"
RECURSIVE TextLines(_, _)
TextLines(text, cur) ==
    IF text = <<>> THEN <<>>
    ELSE IF Head(text) = ByteNewline THEN <<cur>> \o TextLines(Tail(text), <<>>)
    ELSE TextLines(Tail(text), Append(cur, Head(text)))

\* the (x, y) passed to Set so far
SetCalls == {<<px[1], px[2]>> : px \in surface}

\* C27: StringDrawable as a surface.  After any sequence of Set(x, y, c)
\* calls with x, y >= 0, String() has (max y) + 1 lines, the character at
\* column x of line y is 'X' exactly when (x, y) was passed to Set, every
\* other character is a space (no Set erases an earlier 'X'), and
\* PrefixString(p) is the same text with p at the start of every line.
C27_StringDrawableSurface ==
    LET ls == TextLines(String(sd), <<>>)
        ps == TextLines(PrefixString(sd, CommentPrefix), <<>>)
    IN  /\ Len(ls) = Cardinality({y \in 0..MaxY : \E c \in SetCalls : c[2] >= y})
        /\ \A c \in SetCalls :
              /\ c[2] < Len(ls)
              /\ c[1] < Len(ls[c[2] + 1])
              /\ ls[c[2] + 1][c[1] + 1] = ByteX
        /\ \A y \in 1..Len(ls) : \A x \in 1..Len(ls[y]) :
              ls[y][x] = IF <<x - 1, y - 1>> \in SetCalls THEN ByteX ELSE ByteSpace
        /\ Len(ps) = Len(ls)
        /\ \A y \in 1..Len(ls) : ps[y] = CommentPrefix \o ls[y]

C27_Witness ==
    /\ sd = << <<ByteX, 0>>, <<0, 0, ByteX>> >>
    /\ SetCalls = {<<0, 0>>, <<2, 1>>}
    /\ String(sd) = <<ByteX, ByteSpace, ByteNewline,
                      ByteSpace, ByteSpace, ByteX, ByteNewline>>

\* C28: OpenBDF terminates on every finite input: it returns also when the
\* input ends before CHARS n glyphs were read, or before a STARTCHAR or
\* BITMAP line is found.
C28_OpenBDFTerminates == <>(bdf.pc = "return")

====
